---- MODULE Spec2Model ----
(***************************************************************************)
(* A model of the `justatag` crate: the Tag validator (src/src/lib.rs)    *)
(* and the TagUnion engine (src/src/tag_union.rs).                        *)
(*                                                                         *)
(* A `char` is its Unicode scalar value (a natural number), a string is a  *)
(* sequence of chars.  `str::len` counts UTF-8 bytes, `str::chars` yields  *)
(* the scalar values, exactly as in Rust.  A HashSet is modelled by the    *)
(* sequence of its members in iteration order; that order is chosen        *)
(* nondeterministically, because std's RandomState seeds every HashSet     *)
(* differently.                                                            *)
(***************************************************************************)
EXTENDS Integers, Sequences, FiniteSets, TLC

VARIABLES
    t_input,    \* the argument of the last Tag::from_str call
    t_result,   \* what that call returned
    u_input,    \* the argument of the last TagUnion::from_str call
    u_result,   \* what that call returned
    u_retry,    \* what a second call with the same argument returned
    ua,         \* a TagUnion, mutated by insert / remove
    ub,         \* a second TagUnion, mutated by insert / remove
    op,         \* the last insert / remove: its target, argument, result
    m_unions,   \* the Vec<TagUnion> of the last matches_set call
    m_values,   \* the candidate HashSet<Tag> of the last matches_set call
    m_result    \* what that call returned

vars == <<t_input, t_result, u_input, u_result, u_retry, ua, ub, op,
          m_unions, m_values, m_result>>

tagVars   == <<t_input, t_result>>
unionVars == <<u_input, u_result, u_retry>>
opsVars   == <<ua, ub, op>>
matchVars == <<m_unions, m_values, m_result>>

----------------------------------------------------------------------------
(* Bounds of the model *)

\* longest string put before and after the padding of a Tag::from_str input
MaxEdge == 2

\* longest TagUnion::from_str input
MaxUnionLen == 4

\* number of tags the unions of the insert / remove / match models draw from
MaxPool == 3

\* longest Vec<TagUnion> handed to the multi-union matches_set
MaxUnions == 2

----------------------------------------------------------------------------
(* Characters and strings *)

\* char::is_ascii_lowercase: 'a'..='z'
is_ascii_lowercase(c) == c >= 97 /\ c <= 122

\* char::is_ascii_digit: '0'..='9'
is_ascii_digit(c) == c >= 48 /\ c <= 57

\* char::len_utf8: the number of bytes of the UTF-8 encoding of c
len_utf8(c) ==
    IF c < 128 THEN 1
    ELSE IF c < 2048 THEN 2
    ELSE IF c < 65536 THEN 3
    ELSE 4

\* str::len: the length of the string in bytes
RECURSIVE str_len(_)
str_len(value) ==
    IF value = <<>> THEN 0
    ELSE len_utf8(Head(value)) + str_len(Tail(value))

\* str::is_empty
str_is_empty(value) == str_len(value) = 0

\* all strings over the alphabet A of at most n chars
RECURSIVE StringsUpTo(_, _)
StringsUpTo(A, n) ==
    IF n = 0 THEN {<<>>}
    ELSE LET S == StringsUpTo(A, n - 1)
         IN  S \cup {Append(s, c) : s \in S, c \in A}

\* k copies of the char c
RECURSIVE Repeat(_, _)
Repeat(c, k) == IF k = 0 THEN <<>> ELSE <<c>> \o Repeat(c, k - 1)

----------------------------------------------------------------------------
(* Tag (src/src/lib.rs) *)

\* Tag::MAX_LEN
MAX_LEN == 63

\* Ok(Tag(value))
TagOk(value) == [kind |-> "Ok", tag |-> value, arg |-> 0]

\* Err(TagFromStringError::<kind>(arg))
TagErr(kind, arg) == [kind |-> kind, tag |-> <<>>, arg |-> arg]

\* no call has been made yet
NoResult == [kind |-> "None", tag |-> <<>>, arg |-> 0]

\* The `while let Some(c) = chars.next()` loop of Tag::from_str, from the
\* i-th char on: the first char that is no digit, lowercase letter or '-'
\* ends the scan with InvalidCharacter, otherwise the scan ends with the
\* last char seen in `previous`.
RECURSIVE ScanChars(_, _, _)
ScanChars(value, i, previous) ==
    IF i > Len(value) THEN [bad |-> FALSE, c |-> previous]
    ELSE LET c == value[i]
         IN  IF ~is_ascii_digit(c) /\ ~is_ascii_lowercase(c) /\ c # 45
             THEN [bad |-> TRUE, c |-> c]
             ELSE ScanChars(value, i + 1, c)

\* Tag::from_str with the end check left out
Tag_from_str_NoEndCheck(value) ==
    IF str_is_empty(value) THEN TagOk(<<>>)
    ELSE IF str_len(value) > MAX_LEN
    THEN TagErr("LimitExceeded", str_len(value))
    ELSE LET first == value[1]
         IN  IF ~is_ascii_lowercase(first)
             THEN TagErr("MustStartAlphabetic", first)
             ELSE LET scan == ScanChars(value, 2, first)
                  IN  IF scan.bad
                      THEN TagErr("InvalidCharacter", scan.c)
                      ELSE TagOk(value)

\* Tag::from_str with the start check made after the scan
Tag_from_str_LateStart(value) ==
    IF str_is_empty(value) THEN TagOk(<<>>)
    ELSE IF str_len(value) > MAX_LEN
    THEN TagErr("LimitExceeded", str_len(value))
    ELSE LET first == value[1]
             scan  == ScanChars(value, 2, first)
         IN  IF scan.bad
             THEN TagErr("InvalidCharacter", scan.c)
             ELSE IF ~is_ascii_lowercase(first)
             THEN TagErr("MustStartAlphabetic", first)
             ELSE IF ~is_ascii_lowercase(scan.c)
             THEN TagErr("MustEndAlphanumeric", scan.c)
             ELSE TagOk(value)

\* Tag::from_str with the end check made before the start check
Tag_from_str_EndFirst(value) ==
    IF str_is_empty(value) THEN TagOk(<<>>)
    ELSE IF str_len(value) > MAX_LEN
    THEN TagErr("LimitExceeded", str_len(value))
    ELSE LET first == value[1]
             last  == value[Len(value)]
         IN  IF Len(value) = 1 /\ ~is_ascii_lowercase(last)
             THEN TagErr("MustEndAlphanumeric", last)
             ELSE IF ~is_ascii_lowercase(first)
             THEN TagErr("MustStartAlphabetic", first)
             ELSE LET scan == ScanChars(value, 2, first)
                  IN  IF scan.bad
                      THEN TagErr("InvalidCharacter", scan.c)
                      ELSE IF ~is_ascii_lowercase(scan.c)
                      THEN TagErr("MustEndAlphanumeric", scan.c)
                      ELSE TagOk(value)

\* Tag::from_str
Tag_from_str(value) ==
    IF str_is_empty(value) THEN TagOk(<<>>)
    ELSE IF str_len(value) > MAX_LEN
    THEN TagErr("LimitExceeded", str_len(value))
    ELSE LET first == value[1]
         IN  IF ~is_ascii_lowercase(first)
             THEN TagErr("MustStartAlphabetic", first)
             ELSE LET scan == ScanChars(value, 2, first)
                  IN  IF scan.bad
                      THEN TagErr("InvalidCharacter", scan.c)
                      ELSE IF ~is_ascii_lowercase(scan.c)
                      THEN TagErr("MustEndAlphanumeric", scan.c)
                      ELSE TagOk(value)

\* Display for Tag / Deref for Tag: the wrapped string
Tag_to_string(tag) == tag

\* The chars the Tag::from_str inputs are made of:
\* 'a', '1', '-', 'A' and the two-byte 'e acute' (U+00E9)
TagChars == {97, 49, 45, 65, 233}

\* the strings put before and after the padding
EdgeStrings == StringsUpTo(TagChars, MaxEdge)

\* the lengths of the padding: none, or enough to reach the length limit
PadLens == {0} \cup ((MAX_LEN - 2 * MaxEdge) .. (MAX_LEN - 1))

\* the inputs of Tag::from_str: an edge string, a run of 'a', an edge string
TagInputs == {l \o Repeat(97, k) \o r : l \in EdgeStrings, r \in EdgeStrings, k \in PadLens}

----------------------------------------------------------------------------
(* HashSet<T> (std), as the sequence of its members in iteration order *)

\* the members of a sequence
Range(s) == {s[i] : i \in 1 .. Len(s)}

\* all iteration orders of the members S
Perms(S) ==
    {p \in [1 .. Cardinality(S) -> S] : \A x \in S : \E i \in DOMAIN p : p[i] = x}

\* HashSet::contains
HashSet_contains(h, t) == \E i \in 1 .. Len(h) : h[i] = t

\* HashSet::insert: a member that is present leaves the table alone; a new
\* member lands where its hash puts it, at position (slot mod (len + 1)) + 1
\* of the iteration order.
HashSet_insert(h, t, slot) ==
    IF HashSet_contains(h, t) THEN [set |-> h, ret |-> FALSE]
    ELSE LET p == (slot % (Len(h) + 1)) + 1
         IN  [set |-> SubSeq(h, 1, p - 1) \o <<t>> \o SubSeq(h, p, Len(h)),
              ret |-> TRUE]

\* HashSet::remove: erases the member's slot; no other member moves
HashSet_remove(h, t) ==
    [set |-> SelectSeq(h, LAMBDA x : x # t), ret |-> HashSet_contains(h, t)]

\* HashSet::is_subset: `if self.len() <= other.len() { self.iter().all(|v|
\* other.contains(v)) } else { false }`
HashSet_is_subset(h, other) ==
    IF Len(h) <= Len(other)
    THEN \A i \in 1 .. Len(h) : HashSet_contains(other, h[i])
    ELSE FALSE

\* PartialEq for HashSet: `if self.len() != other.len() { return false; }
\* self.iter().all(|key| other.contains(key))`
HashSet_eq(h, other) ==
    IF Len(h) # Len(other) THEN FALSE
    ELSE \A i \in 1 .. Len(h) : HashSet_contains(other, h[i])

----------------------------------------------------------------------------
(* TagUnion (src/src/tag_union.rs) *)

\* Ok(TagUnion(tags))
UnionOk(tags) == [kind |-> "Ok", tags |-> tags, err |-> NoResult]

\* Err(TagUnionFromStringError::InvalidTag(e)), by From<TagFromStringError>
UnionErr(e) == [kind |-> "InvalidTag", tags |-> <<>>, err |-> e]

\* no call has been made yet
NoUnion == [kind |-> "None", tags |-> <<>>, err |-> NoResult]

\* TagUnion::default(): the empty union
TagUnion_default == <<>>

\* str::contains(char)
str_contains(value, c) == \E i \in 1 .. Len(value) : value[i] = c

\* str::split(char): the substrings between the delimiters, empty ones
\* included; `cur` is the substring being collected
RECURSIVE str_split(_, _, _)
str_split(value, delim, cur) ==
    IF value = <<>> THEN <<cur>>
    ELSE IF Head(value) = delim
    THEN <<cur>> \o str_split(Tail(value), delim, <<>>)
    ELSE str_split(Tail(value), delim, Append(cur, Head(value)))

\* `names` of TagUnion::from_str: the parts that hold no '+' and are not
\* empty, collected into a HashSet<String>
Names(value) ==
    LET parts == str_split(value, 43, <<>>)
    IN  {parts[i] : i \in {j \in 1 .. Len(parts) :
                              /\ ~str_contains(parts[j], 43)
                              /\ ~str_is_empty(parts[j])}}

\* The `for name in names.into_iter()` loop of TagUnion::from_str from the
\* i-th name of the iteration order on: `?` returns the first error met.
RECURSIVE ParseNames(_, _, _, _)
ParseNames(names_iter, i, tags, slots) ==
    IF i > Len(names_iter) THEN UnionOk(tags)
    ELSE LET r == Tag_from_str(names_iter[i])
         IN  IF r.kind # "Ok" THEN UnionErr(r)
             ELSE ParseNames(names_iter, i + 1,
                             HashSet_insert(tags, r.tag, slots[i]).set, slots)

\* TagUnion::from_str.  names_iter is the order in which the HashSet `names`
\* hands out its members, slots[i] places the i-th tag in the HashSet `tags`.
TagUnion_from_str(value, names_iter, slots) ==
    IF str_is_empty(value) THEN UnionOk(TagUnion_default)
    ELSE IF Names(value) = {} THEN UnionOk(TagUnion_default)
    ELSE ParseNames(names_iter, 1, <<>>, slots)

\* TagUnion::matches_set with a strict length comparison
TagUnion_matches_set_Strict(u, values) ==
    IF Len(u) < Len(values)
    THEN \A i \in 1 .. Len(u) : HashSet_contains(values, u[i])
    ELSE FALSE

\* TagUnion::matches_set
TagUnion_matches_set(u, values) == HashSet_is_subset(u, values)

\* TagUnion::insert that reports every call as an insertion
TagUnion_insert_AlwaysTrue(u, tag, slot) ==
    [set |-> HashSet_insert(u, tag, slot).set, ret |-> TRUE]

\* TagUnion::insert
TagUnion_insert(u, tag, slot) == HashSet_insert(u, tag, slot)

\* TagUnion::remove
TagUnion_remove(u, tag) == HashSet_remove(u, tag)

\* TagUnion::contains
TagUnion_contains(u, tag) == HashSet_contains(u, tag)

\* HashSet::len, through Deref for TagUnion
TagUnion_len(u) == Len(u)

\* HashSet::is_empty, through Deref for TagUnion
TagUnion_is_empty(u) == Len(u) = 0

\* PartialEq for TagUnion (derived): equality of the wrapped HashSets
TagUnion_eq(u, other) == HashSet_eq(u, other)

\* Iterator::any over the unions from the i-th on: stops at the first match
RECURSIVE iter_any(_, _, _)
iter_any(unions, i, values) ==
    IF i > Len(unions) THEN FALSE
    ELSE IF TagUnion_matches_set(unions[i], values) THEN TRUE
    ELSE iter_any(unions, i + 1, values)

\* Iterator::all over the unions from the i-th on
RECURSIVE iter_all(_, _, _)
iter_all(unions, i, values) ==
    IF i > Len(unions) THEN TRUE
    ELSE IF ~TagUnion_matches_set(unions[i], values) THEN FALSE
    ELSE iter_all(unions, i + 1, values)

\* the multi-union matches_set with `all` in the place of `any`
Vec_matches_set_All(unions, values) == iter_all(unions, 1, values)

\* MatchesAnyTagUnion for Vec<TagUnion>: matches_set
Vec_matches_set(unions, values) == iter_any(unions, 1, values)

\* Ord for Tag (derived): the order of the wrapped strings, lexicographic
RECURSIVE Tag_lt(_, _)
Tag_lt(a, b) ==
    IF b = <<>> THEN FALSE
    ELSE IF a = <<>> THEN TRUE
    ELSE IF Head(a) # Head(b) THEN Head(a) < Head(b)
    ELSE Tag_lt(Tail(a), Tail(b))

\* the sorted vector v with the tag t put in its place
RECURSIVE sort_place(_, _)
sort_place(v, t) ==
    IF v = <<>> THEN <<t>>
    ELSE IF Tag_lt(t, Head(v)) THEN <<t>> \o v
    ELSE <<Head(v)>> \o sort_place(Tail(v), t)

\* Vec::sort
RECURSIVE Vec_sort(_)
Vec_sort(v) ==
    IF v = <<>> THEN <<>>
    ELSE sort_place(Vec_sort(Tail(v)), Head(v))

\* Hash for Tag (derived): the bytes of the string, then the byte 0xff
Tag_hash(tag) == tag \o <<255>>

\* what `for tag in vec { tag.hash(state) }` feeds into the hasher
RECURSIVE hash_each(_)
hash_each(vec) ==
    IF vec = <<>> THEN <<>>
    ELSE Tag_hash(Head(vec)) \o hash_each(Tail(vec))

\* Hash for TagUnion without the sort
TagUnion_hash_Unsorted(u) == hash_each(u)

\* Hash for TagUnion: what the hasher is fed
TagUnion_hash(u) == hash_each(Vec_sort(u))

----------------------------------------------------------------------------
(* Inputs of the union models *)

\* The chars the TagUnion::from_str inputs are made of:
\* 'a', '1', '+', '#' and '-'
UnionChars == {97, 49, 43, 35, 45}

\* the inputs of TagUnion::from_str
UnionInputs == StringsUpTo(UnionChars, MaxUnionLen)

\* the most names an input can hold
MaxNames == (MaxUnionLen + 1) \div 2

\* the strings the tags of the pool are made from: a, ab, b, a-b, ba
PoolNames == << <<97>>, <<97, 98>>, <<98>>, <<97, 45, 98>>, <<98, 97>> >>

\* Tag::new: parse().expect("invalid input"); the pool holds valid names only
Tag_new(value) == Tag_from_str(value).tag

\* the tags the unions of the insert / remove / match models are made of
TagPool == {Tag_new(PoolNames[i]) : i \in 1 .. MaxPool}

\* every HashSet<Tag> over the pool, in one iteration order each
SomeHashSets == {Vec_sort(CHOOSE p \in Perms(S) : TRUE) : S \in SUBSET TagPool}

\* the sequence s from its last member to its first
Reversed(s) == [i \in 1 .. Len(s) |-> s[Len(s) + 1 - i]]

\* every HashSet<Tag> over the pool, in two opposite iteration orders each
TwoWayHashSets == SomeHashSets \cup {Reversed(h) : h \in SomeHashSets}

\* every Vec<TagUnion> of at most n unions
RECURSIVE VecsUpTo(_)
VecsUpTo(n) ==
    IF n = 0 THEN {<<>>}
    ELSE LET V == VecsUpTo(n - 1)
         IN  V \cup {Append(v, u) : v \in V, u \in TwoWayHashSets}

----------------------------------------------------------------------------
(* The specification of Tag::from_str: a caller holds a string and parses it *)

\* the state of the parts of the model a specification does not use
IdleTag   == t_input = <<>> /\ t_result = NoResult
IdleUnion == u_input = <<>> /\ u_result = NoUnion /\ u_retry = NoUnion
IdleOps   == ua = TagUnion_default /\ ub = TagUnion_default /\ op = NoResult
IdleMatch == m_unions = <<>> /\ m_values = <<>> /\ m_result = NoResult

Init ==
    /\ t_input \in TagInputs
    /\ t_result = NoResult
    /\ IdleUnion /\ IdleOps /\ IdleMatch

\* the caller parses its string into a tag
ParseTag ==
    /\ t_result = NoResult
    /\ t_result' = Tag_from_str(t_input)
    /\ UNCHANGED <<t_input, unionVars, opsVars, matchVars>>

Next == ParseTag

Spec == Init /\ [][Next]_vars

----------------------------------------------------------------------------
(* The specification of TagUnion::from_str: a caller holds a string, parses *)
(* it into a union and then parses the same string once more                *)

InitUnion ==
    /\ u_input \in UnionInputs
    /\ u_result = NoUnion
    /\ u_retry = NoUnion
    /\ IdleTag /\ IdleOps /\ IdleMatch

\* the caller parses its string into a union
ParseUnion ==
    /\ u_result = NoUnion
    /\ \E names_iter \in Perms(Names(u_input)) :
       \E slots \in [1 .. MaxNames -> 0 .. (MaxNames - 1)] :
          u_result' = TagUnion_from_str(u_input, names_iter, slots)
    /\ UNCHANGED <<u_input, u_retry, tagVars, opsVars, matchVars>>

\* the caller parses the same string again
RetryUnion ==
    /\ u_result # NoUnion
    /\ u_retry = NoUnion
    /\ \E names_iter \in Perms(Names(u_input)) :
       \E slots \in [1 .. MaxNames -> 0 .. (MaxNames - 1)] :
          u_retry' = TagUnion_from_str(u_input, names_iter, slots)
    /\ UNCHANGED <<u_input, u_result, tagVars, opsVars, matchVars>>

NextUnion == ParseUnion \/ RetryUnion

SpecUnion == InitUnion /\ [][NextUnion]_vars

----------------------------------------------------------------------------
(* The specification of insert and remove: two unions, empty at first, are *)
(* changed by any sequence of calls                                         *)

\* the record of a call
Call(kind, on, tag, ret) == [kind |-> kind, on |-> on, tag |-> tag, ret |-> ret]

InitOps ==
    /\ ua = TagUnion_default
    /\ ub = TagUnion_default
    /\ op = NoResult
    /\ IdleTag /\ IdleUnion /\ IdleMatch

\* insert(tag) on one of the unions
Insert ==
    /\ \E tag \in TagPool :
          \/ \E slot \in 0 .. Len(ua) :
                LET r == TagUnion_insert(ua, tag, slot)
                IN  ua' = r.set /\ ub' = ub /\ op' = Call("insert", "a", tag, r.ret)
          \/ \E slot \in 0 .. Len(ub) :
                LET r == TagUnion_insert(ub, tag, slot)
                IN  ub' = r.set /\ ua' = ua /\ op' = Call("insert", "b", tag, r.ret)
    /\ UNCHANGED <<tagVars, unionVars, matchVars>>

\* remove(tag) on one of the unions
Remove ==
    /\ \E tag \in TagPool :
          \/ LET r == TagUnion_remove(ua, tag)
             IN  ua' = r.set /\ ub' = ub /\ op' = Call("remove", "a", tag, r.ret)
          \/ LET r == TagUnion_remove(ub, tag)
             IN  ub' = r.set /\ ua' = ua /\ op' = Call("remove", "b", tag, r.ret)
    /\ UNCHANGED <<tagVars, unionVars, matchVars>>

NextOps == Insert \/ Remove

SpecOps == InitOps /\ [][NextOps]_vars

----------------------------------------------------------------------------
(* The specification of matches_set: a caller holds a vector of unions and *)
(* a candidate set and asks whether they match                             *)

\* the record of a matches_set call
Matched(kind, index, ret) == [kind |-> kind, index |-> index, ret |-> ret]

InitMatch ==
    /\ m_unions \in VecsUpTo(MaxUnions)
    /\ m_values \in SomeHashSets
    /\ m_result = NoResult
    /\ IdleTag /\ IdleUnion /\ IdleOps

\* the multi-union matches_set on the vector
MatchAny ==
    /\ m_result = NoResult
    /\ m_result' = Matched("any", 0, Vec_matches_set(m_unions, m_values))
    /\ UNCHANGED <<m_unions, m_values, tagVars, unionVars, opsVars>>

\* matches_set on one union of the vector
MatchOne ==
    /\ m_result = NoResult
    /\ \E i \in 1 .. Len(m_unions) :
          m_result' = Matched("one", i, TagUnion_matches_set(m_unions[i], m_values))
    /\ UNCHANGED <<m_unions, m_values, tagVars, unionVars, opsVars>>

NextMatch == MatchAny \/ MatchOne

SpecMatch == InitMatch /\ [][NextMatch]_vars

----------------------------------------------------------------------------
(* Properties of Tag::from_str, checked under Spec *)

\* a lowercase ASCII letter, an ASCII digit or '-'
TagChar(c) == (c >= 97 /\ c <= 122) \/ (c >= 48 /\ c <= 57) \/ c = 45

\* 1 to 63 chars, the first a lowercase letter, the last a lowercase letter
\* or a digit, all of them lowercase letters, digits or '-'
WellFormed(s) ==
    /\ Len(s) >= 1
    /\ Len(s) <= 63
    /\ s[1] >= 97 /\ s[1] <= 122
    /\ (s[Len(s)] >= 97 /\ s[Len(s)] <= 122) \/ (s[Len(s)] >= 48 /\ s[Len(s)] <= 57)
    /\ \A i \in 1 .. Len(s) : TagChar(s[i])

\* the position of the leftmost char of s that is no TagChar (0 if none)
LeftmostBad(s) ==
    IF \A i \in 1 .. Len(s) : TagChar(s[i]) THEN 0
    ELSE CHOOSE i \in 1 .. Len(s) :
            /\ ~TagChar(s[i])
            /\ \A j \in 1 .. (i - 1) : TagChar(s[j])

\* C1: every string of 1 to 63 chars that starts with a lowercase letter,
\* ends with a lowercase letter or a digit and holds only lowercase letters,
\* digits and '-' is parsed successfully, and the tag's string form is the
\* input itself.
C1_ValidParsesToItself ==
    (t_result # NoResult /\ WellFormed(t_input))
        => (t_result.kind = "Ok" /\ Tag_to_string(t_result.tag) = t_input)

\* C2: every tag returned as Ok is the empty tag or has at most 63 chars,
\* starts with a lowercase letter, ends with a lowercase letter or a digit
\* and holds only lowercase letters, digits and '-'; the same is true of the
\* input that was accepted.
C2_OkTagsAreWellFormed ==
    t_result.kind = "Ok"
        => /\ t_result.tag = <<>> \/ WellFormed(t_result.tag)
           /\ t_input = <<>> \/ WellFormed(t_input)

\* a tag as long as the limit allows was accepted
C2_Witness ==
    /\ t_result.kind = "Ok"
    /\ Len(t_result.tag) = MAX_LEN
    /\ \E i \in 1 .. MAX_LEN : t_result.tag[i] = 45

\* The error priority of C10 with `length` measured by the operator len.
ErrorPriority(len(_)) ==
    t_result # NoResult =>
       /\ len(t_input) > 63 => t_result = TagErr("LimitExceeded", len(t_input))
       /\ (len(t_input) <= 63 /\ t_input # <<>>
             /\ ~(t_input[1] >= 97 /\ t_input[1] <= 122))
            => t_result = TagErr("MustStartAlphabetic", t_input[1])
       /\ (len(t_input) <= 63 /\ t_input # <<>>
             /\ (t_input[1] >= 97 /\ t_input[1] <= 122)
             /\ LeftmostBad(t_input) # 0)
            => t_result = TagErr("InvalidCharacter", t_input[LeftmostBad(t_input)])
       /\ t_result.kind = "MustEndAlphanumeric"
            => /\ len(t_input) <= 63 /\ t_input # <<>>
               /\ t_input[1] >= 97 /\ t_input[1] <= 122
               /\ LeftmostBad(t_input) = 0
               /\ t_result.arg = t_input[Len(t_input)]
       /\ t_result.kind \in {"Ok", "LimitExceeded", "MustStartAlphabetic",
                             "InvalidCharacter", "MustEndAlphanumeric"}

\* the number of bytes of the UTF-8 encoding of s
Utf8Bytes(s) == IF s = <<>> THEN 0 ELSE
    LET n[i \in 0 .. Len(s)] ==
            IF i = 0 THEN 0
            ELSE n[i - 1] + (IF s[i] < 128 THEN 1 ELSE IF s[i] < 2048 THEN 2
                             ELSE IF s[i] < 65536 THEN 3 ELSE 4)
    IN  n[Len(s)]

SingleBadChar(s) ==
    /\ Len(s) = 1
    /\ ~(s[1] >= 97 /\ s[1] <= 122)
    /\ ~(s[1] >= 48 /\ s[1] <= 57)

\* C11 as stated: an input of one char that is neither a lowercase letter
\* nor a digit is rejected by the end check, with MustEndAlphanumeric(char).
C11_SingleCharByEndCheck ==
    (t_result # NoResult /\ SingleBadChar(t_input))
        => t_result = TagErr("MustEndAlphanumeric", t_input[1])

\* C11 as amended: an input of one char that is neither a lowercase letter
\* nor a digit is rejected by the start check, with
\* MustStartAlphabetic(char), and never with MustEndAlphanumeric.
C11_SingleCharByStartCheck ==
    (t_result # NoResult /\ SingleBadChar(t_input))
        => /\ t_result = TagErr("MustStartAlphabetic", t_input[1])
           /\ t_result.kind # "MustEndAlphanumeric"

\* the input "-" was parsed and rejected
C11_Witness ==
    /\ t_input = <<45>>
    /\ t_result.kind \notin {"None", "Ok"}
    /\ t_result.arg = 45

----------------------------------------------------------------------------
(* Properties of TagUnion::from_str, checked under SpecUnion *)

\* the parts of the input between the '+', in input order
Fragments(s) ==
    LET cut == {0, Len(s) + 1} \cup {i \in 1 .. Len(s) : s[i] = 43}
        nxt(i) == CHOOSE j \in cut : j > i /\ \A k \in cut : k > i => k >= j
        starts == cut \ {Len(s) + 1}
        f[n \in 0 .. Cardinality(starts)] ==
            IF n = 0 THEN [at |-> -1, out |-> <<>>]
            ELSE LET i == CHOOSE j \in starts : j > f[n - 1].at
                              /\ \A k \in starts : k > f[n - 1].at => k >= j
                 IN  [at |-> i,
                      out |-> Append(f[n - 1].out, SubSeq(s, i + 1, nxt(i) - 1))]
    IN  f[Cardinality(starts)].out

\* the non-empty fragments of the input, in input order
NonEmptyFragments(s) == SelectSeq(Fragments(s), LAMBDA f : f # <<>>)

\* the non-empty fragments Tag::from_str rejects, in input order
InvalidFragments(s) ==
    SelectSeq(NonEmptyFragments(s), LAMBDA f : Tag_from_str(f).kind # "Ok")

\* C3: when more than one fragment of the input is an invalid tag, the parse
\* fails with InvalidTag(e), e being the error of the leftmost invalid
\* fragment.
C3_LeftmostError ==
    (u_result # NoUnion /\ Len(InvalidFragments(u_input)) > 1)
        => u_result = UnionErr(Tag_from_str(InvalidFragments(u_input)[1]))

\* C4: when every non-empty fragment of the input is a valid tag, the parse
\* succeeds and the union holds exactly the distinct non-empty fragments,
\* each once; an input without a non-empty fragment gives the empty union.
C4_UnionOfFragments ==
    (u_result # NoUnion
       /\ \A i \in 1 .. Len(NonEmptyFragments(u_input)) :
             WellFormed(NonEmptyFragments(u_input)[i]))
        => /\ u_result.kind = "Ok"
           /\ Range(u_result.tags) = Range(NonEmptyFragments(u_input))
           /\ Len(u_result.tags) = Cardinality(Range(NonEmptyFragments(u_input)))

\* C9: parsing the same string twice gives the same outcome: the same union
\* on success, the same error with the same payload on failure.
C9_SameOutcome ==
    u_retry # NoUnion
        => /\ u_retry.kind = u_result.kind
           /\ u_retry.err = u_result.err
           /\ Range(u_retry.tags) = Range(u_result.tags)

----------------------------------------------------------------------------
(* Properties of matches_set, checked under SpecMatch *)

\* the vector with its unions in the order p
Permuted(unions, p) == [i \in 1 .. Len(unions) |-> unions[p[i]]]

\* C5: the multi-union matches_set is true iff some union of the vector is a
\* subset of the candidate set; it is false for the empty vector, and every
\* permutation of the vector gives the same result.
C5_AnyUnionIsSubset ==
    m_result.kind = "any"
        => /\ m_result.ret
                = (\E i \in 1 .. Len(m_unions) : Range(m_unions[i]) \subseteq Range(m_values))
           /\ m_unions = <<>> => m_result.ret = FALSE
           /\ \A p \in Perms(1 .. Len(m_unions)) :
                 Vec_matches_set(Permuted(m_unions, p), m_values) = m_result.ret

\* a vector whose first union does not match and whose second does
C5_Witness ==
    /\ m_result.kind = "any"
    /\ m_result.ret = TRUE
    /\ Len(m_unions) = 2
    /\ ~(Range(m_unions[1]) \subseteq Range(m_values))

\* C6: matches_set of a union is true iff every member of the union is a
\* member of the candidate set; the empty union matches every candidate set,
\* and a candidate set with more tags still matches.
C6_SubsetMatch ==
    m_result.kind = "one"
        => LET u == m_unions[m_result.index]
           IN  /\ m_result.ret = (\A t \in Range(u) : t \in Range(m_values))
               /\ u = <<>> => m_result.ret = TRUE
               /\ m_result.ret =>
                     \A c \in SomeHashSets :
                        Range(m_values) \subseteq Range(c) => TagUnion_matches_set(u, c)

\* a union matched a candidate set that holds exactly its members
C6_Witness ==
    /\ m_result.kind = "one"
    /\ m_result.ret = TRUE
    /\ Len(m_unions[m_result.index]) = 2
    /\ Range(m_unions[m_result.index]) = Range(m_values)

----------------------------------------------------------------------------
(* Properties of insert, remove, equality and hashing, checked under SpecOps *)

\* What a call must have done: `before` and `after` are the union the call
\* was made on, c is the record of the call.
CallEffect(before, after, c) ==
    /\ c.kind = "insert" =>
          /\ c.ret = ~TagUnion_contains(before, c.tag)
          /\ c.ret => /\ TagUnion_len(after) = TagUnion_len(before) + 1
                      /\ TagUnion_contains(after, c.tag)
          /\ ~c.ret => after = before
    /\ c.kind = "remove" =>
          /\ c.ret = TagUnion_contains(before, c.tag)
          /\ c.ret => /\ TagUnion_len(after) = TagUnion_len(before) - 1
                      /\ ~TagUnion_contains(after, c.tag)
          /\ ~c.ret => after = before
    /\ \A t \in TagPool \ {c.tag} :
          TagUnion_contains(after, t) = TagUnion_contains(before, t)
    /\ TagUnion_is_empty(after) = (Cardinality(Range(after)) = 0)
    /\ TagUnion_len(after) = Cardinality(Range(after))

\* C7: insert(t) returns true iff t was absent, and then len grows by 1 and
\* contains(t) holds; it returns false iff t was present, and then the union
\* is unchanged.  remove(t) returns true iff t was present, and then len
\* shrinks by 1 and contains(t) no longer holds; it returns false iff t was
\* absent, and then the union is unchanged.  No other tag's membership
\* changes, and is_empty holds iff len is 0.
C7_InsertRemove ==
    [][IF op'.on = "a" THEN CallEffect(ua, ua', op') /\ ub' = ub
                       ELSE CallEffect(ub, ub', op') /\ ua' = ua]_vars

\* an insert of a tag that was already present, the other union being empty
C7_Witness ==
    /\ op.kind = "insert"
    /\ op.ret = FALSE
    /\ op.on = "a"
    /\ Len(ua) = 2
    /\ ub = <<>>

\* C8: two unions with the same members are equal and feed the same sequence
\* into the hasher, whatever their iteration orders and their histories; two
\* unions with different members are not equal.
C8_EqualAndHashAlike ==
    /\ Range(ua) = Range(ub)
          => /\ TagUnion_eq(ua, ub)
             /\ TagUnion_eq(ub, ua)
             /\ TagUnion_hash(ua) = TagUnion_hash(ub)
    /\ Range(ua) # Range(ub)
          => /\ ~TagUnion_eq(ua, ub)
             /\ ~TagUnion_eq(ub, ua)

\* two unions with the same members in different iteration orders, the last
\* call having removed another tag
C8_Witness ==
    /\ Range(ua) = Range(ub)
    /\ ua # ub
    /\ Len(ua) >= 2
    /\ op.kind = "remove"
    /\ op.ret = TRUE

====
